---- MODULE Spec2Model ----
(***************************************************************************)
(* FED press-conference scraper (src/main.py, src/config.py).              *)
(*                                                                         *)
(* Text is a sequence of lexemes.  A lexeme is a single whitespace, digit  *)
(* or punctuation character, or a whole alphabetic word; the regular       *)
(* expressions of the program are sequences of quantified character        *)
(* classes and are matched over lexemes the way Python's re matches them   *)
(* over characters (leftmost match, greedy with backtracking).             *)
(***************************************************************************)
EXTENDS Integers, Sequences, FiniteSets, TLC

VARIABLES
    names,          \* self.names: the registry loaded at construction (line 79)
    names_file,     \* names.txt: readable, missing or unreadable
    dates_file,     \* press_conference_dates.txt: readable, missing or unreadable
    run,            \* how many times the program has been started
    clean_result,   \* history: what clean_all_text_files did to each file it listed
    saved_raw,      \* history: the text save_text_file last wrote in full for each date
    faulted,        \* history: some open, read or write of an output file has failed
    dates,          \* the date list loaded by scrape_predefined_dates
    files,          \* output directory: date -> content of FOMCpresconf<date>.txt, or NoFile
    pc,             \* position of the program
    idx,            \* index in dates of the date being processed (loop of line 375)
    attempt,        \* loop variable of download_pdf (line 144)
    pdf,            \* pdf_content in process_date (line 342)
    text,           \* text_content in process_date (line 346) / cleaned_content (line 306)
    success_count,  \* line 372
    total_count,    \* line 373
    todo,           \* text_files still to visit in clean_all_text_files (line 301)
    cur,            \* text_file being cleaned
    cleaned_content,\* line 306
    cleaned_count,  \* line 298
    outcome,        \* which return statement ended the current process_date call
    log,            \* history of the run: process_date calls, file writes, returns, delay sleeps
    flog            \* history of the current download_pdf call: GETs and retry sleeps

vars == <<names, names_file, dates_file, run, clean_result, saved_raw, faulted,
          dates, files, pc, idx, attempt, pdf, text, success_count, total_count,
          todo, cur, cleaned_content, cleaned_count, outcome, log, flog>>

(* What a run never changes after construction. *)
env == <<names, names_file, dates_file, run>>

hist == <<clean_result, saved_raw, faulted>>

----------------------------------------------------------------------------
(* Lexemes *)

WS == {" ", "\n"}

Digit == {"1", "2"}

Alpha == {"Page", "of", "Transcript", "Chair", "Powell", "s", "Press",
          "Conference", "FINAL", "Jan", "hello", "Jerome", "NAME"}

Apos == {"'"}

IsWord(c) == c \in Alpha \cup Digit

(* A regular expression is a sequence of items; an item is a character    *)
(* class with a repetition range, cls{lo,hi}, or cls{lo,} when unb.        *)
One(c) == [cls |-> {c}, lo |-> 1, hi |-> 1, unb |-> FALSE]

Plus(S) == [cls |-> S, lo |-> 1, hi |-> 1, unb |-> TRUE]

Star(S) == [cls |-> S, lo |-> 0, hi |-> 0, unb |-> TRUE]

Rng(S, lo, hi) == [cls |-> S, lo |-> lo, hi |-> hi, unb |-> FALSE]

RECURSIVE RunLen(_, _, _)
RunLen(S, t, pos) ==
    IF pos <= Len(t) /\ t[pos] \in S THEN 1 + RunLen(S, t, pos + 1) ELSE 0

(* The position after the match of re[i..] that starts at pos, 0 if none:  *)
(* each item takes as many characters as it can and gives back one at a    *)
(* time until the rest of the expression matches.                          *)
RECURSIVE MatchFrom(_, _, _, _), TryCount(_, _, _, _, _)
MatchFrom(re, i, t, pos) ==
    IF i > Len(re) THEN pos
    ELSE LET m0 == RunLen(re[i].cls, t, pos)
             m  == IF re[i].unb \/ m0 <= re[i].hi THEN m0 ELSE re[i].hi
         IN  TryCount(re, i, t, pos, m)

TryCount(re, i, t, pos, k) ==
    IF k < re[i].lo THEN 0
    ELSE LET r == MatchFrom(re, i + 1, t, pos + k)
         IN  IF r # 0 THEN r ELSE TryCount(re, i, t, pos, k - 1)

(* pattern.sub(repl, t): the leftmost non-overlapping matches replaced. *)
RECURSIVE SubFrom(_, _, _, _)
SubFrom(re, repl, t, pos) ==
    IF pos > Len(t) THEN <<>>
    ELSE LET e == MatchFrom(re, 1, t, pos)
         IN  IF e # 0 THEN repl \o SubFrom(re, repl, t, e)
             ELSE <<t[pos]>> \o SubFrom(re, repl, t, pos + 1)

Sub(re, repl, t) == SubFrom(re, repl, t, 1)

Date == <<Plus(Alpha), Plus(WS), Rng(Digit, 1, 2), Star(WS), One(","), Star(WS),
          Rng(Digit, 3, 3), Star(WS), Rng(Digit, 1, 1)>>

Possessive == <<One("Chair"), Plus(WS), One("Powell"), Star(WS),
                Star(Apos \cup WS), One("s"), Plus(WS), One("Press"), Plus(WS),
                One("Conference")>>

page_number_pattern ==
    <<One("Page"), One(" "), Plus(Digit), One(" "), One("of"), One(" "), Plus(Digit)>>

header_pattern == Date \o <<Plus(WS)>> \o Possessive \o <<Plus(WS), One("FINAL")>>

transcript_pattern ==
    <<One("Transcript"), Plus(WS), One("of"), Plus(WS)>> \o Possessive

transcript_with_date_pattern == transcript_pattern \o <<Plus(WS)>> \o Date

whitespace_pattern == <<Plus(WS)>>

(* The non-blank lines of names.txt, in file order. *)
NamesFile == << <<"Jerome", " ", "Powell">>, <<"Powell">> >>

FileStatus == {"ok", "missing", "unreadable"}

(* _load_names_from_file: the lines of the file, or no names at all when   *)
(* the file is missing (lines 93-95) or cannot be read (lines 103-105).     *)
_load_names_from_file(status) == IF status = "ok" THEN NamesFile ELSE <<>>

OpenTag == <<"<", "NAME", ">">>

CloseTag == <<"<", "/", "NAME", ">">>

(* \b at position p: exactly one of t[p-1], t[p] is a word character. *)
Boundary(t, p) ==
    (p > 1 /\ IsWord(t[p - 1])) # (p <= Len(t) /\ IsWord(t[p]))

LitAt(w, t, pos) ==
    /\ pos + Len(w) - 1 <= Len(t)
    /\ \A i \in 1..Len(w) : t[pos + i - 1] = w[i]

(* name in tagged_text *)
Contains(w, t) == \E pos \in 1..Len(t) : LitAt(w, t, pos)

(* A substitution that leaves alone an occurrence standing between tags. *)
RECURSIVE TagFrom_SkipsTagged(_, _, _)
TagFrom_SkipsTagged(name, t, pos) ==
    IF pos > Len(t) THEN <<>>
    ELSE IF /\ LitAt(name, t, pos) /\ Boundary(t, pos) /\ Boundary(t, pos + Len(name))
            /\ ~(pos > 1 /\ t[pos - 1] = ">")
         THEN OpenTag \o name \o CloseTag \o TagFrom_SkipsTagged(name, t, pos + Len(name))
         ELSE <<t[pos]>> \o TagFrom_SkipsTagged(name, t, pos + 1)

(* re.sub(r"\b" + re.escape(name) + r"\b", "<NAME>name</NAME>", t) *)
RECURSIVE TagFrom(_, _, _)
TagFrom(name, t, pos) ==
    IF pos > Len(t) THEN <<>>
    ELSE IF LitAt(name, t, pos) /\ Boundary(t, pos) /\ Boundary(t, pos + Len(name))
         THEN OpenTag \o name \o CloseTag \o TagFrom(name, t, pos + Len(name))
         ELSE <<t[pos]>> \o TagFrom(name, t, pos + 1)

(* The loop over the names matching every name against the text as it was *)
(* given, and wrapping the matches of the last name first.                 *)
RECURSIVE TagNames_LastFirst(_, _, _)
TagNames_LastFirst(ns, i, t) ==
    IF i > Len(ns) THEN t
    ELSE LET rest == TagNames_LastFirst(ns, i + 1, t)
         IN  IF Contains(ns[i], rest) THEN TagFrom(ns[i], rest, 1) ELSE rest

RECURSIVE TagNames(_, _, _)
TagNames(ns, i, t) ==
    IF i > Len(ns) THEN t
    ELSE TagNames(ns, i + 1,
                  IF Contains(ns[i], t) THEN TagFrom(ns[i], t, 1) ELSE t)

_tag_names_in_text(t) == IF Len(names) = 0 THEN t ELSE TagNames(names, 1, t)

RECURSIVE LStrip(_), RStrip(_)
LStrip(t) == IF Len(t) > 0 /\ Head(t) \in WS THEN LStrip(Tail(t)) ELSE t

RStrip(t) ==
    IF Len(t) > 0 /\ t[Len(t)] \in WS THEN RStrip(SubSeq(t, 1, Len(t) - 1)) ELSE t

Strip(t) == RStrip(LStrip(t))

(* Lines 186-190: the four removals and the whitespace collapse. *)
StructuralSteps(t) ==
    LET t1 == Sub(page_number_pattern, <<>>, t)
        t2 == Sub(header_pattern, <<>>, t1)
        t3 == Sub(transcript_with_date_pattern, <<>>, t2)
        t4 == Sub(transcript_pattern, <<>>, t3)
    IN  Sub(whitespace_pattern, <<" ">>, t4)

clean_extracted_text(t) ==
    IF Len(t) = 0 THEN t
    ELSE Strip(_tag_names_in_text(StructuralSteps(t)))

----------------------------------------------------------------------------
(* Configuration (src/config.py) *)

max_retries == 3

retry_delay == 2

delay == 1

----------------------------------------------------------------------------
(* Extractor *)

(* A PDF: whether pdfplumber.open accepts it, and what page.extract_text() *)
(* does on each page: returns text, returns nothing, or raises.            *)
PText(t) == [kind |-> "text", t |-> t]

PNone == [kind |-> "none", t |-> <<>>]

PThrows == [kind |-> "throws", t |-> <<>>]

Pdf(ps) == [none |-> FALSE, opens |-> TRUE, pages |-> ps]

Corrupt == [none |-> FALSE, opens |-> FALSE, pages |-> <<>>]

(* pdf_content = None *)
None == [none |-> TRUE, opens |-> FALSE, pages |-> <<>>]

(* "\n".join(parts) *)
RECURSIVE Join(_)
Join(parts) ==
    IF Len(parts) = 0 THEN <<>>
    ELSE IF Len(parts) = 1 THEN parts[1]
    ELSE parts[1] \o <<"\n">> \o Join(Tail(parts))

(* The page loop without the handler of lines 243-245: a page that raises  *)
(* ends the loop.                                                          *)
RECURSIVE ExtractPages_AbortsOnThrow(_, _, _)
ExtractPages_AbortsOnThrow(pages, i, text_parts) ==
    IF i > Len(pages) THEN text_parts
    ELSE IF pages[i].kind = "throws" THEN text_parts
    ELSE IF pages[i].kind = "text" /\ Len(pages[i].t) > 0
         THEN ExtractPages_AbortsOnThrow(pages, i + 1, Append(text_parts, pages[i].t))
         ELSE ExtractPages_AbortsOnThrow(pages, i + 1, text_parts)

(* The loop of lines 236-245: text_parts after pages i.. have been visited. *)
RECURSIVE ExtractPages(_, _, _)
ExtractPages(pages, i, text_parts) ==
    IF i > Len(pages) THEN text_parts
    ELSE IF pages[i].kind = "throws" THEN ExtractPages(pages, i + 1, text_parts)
    ELSE IF pages[i].kind = "text" /\ Len(pages[i].t) > 0
         THEN ExtractPages(pages, i + 1, Append(text_parts, pages[i].t))
         ELSE ExtractPages(pages, i + 1, text_parts)

(* extract_text_from_pdf: raises ScraperError, or returns the text. *)
extract_text_from_pdf(doc) ==
    IF ~doc.opens THEN [raised |-> TRUE, text |-> <<>>]
    ELSE LET text_parts == ExtractPages(doc.pages, 1, <<>>)
         IN  IF Len(text_parts) = 0 THEN [raised |-> TRUE, text |-> <<>>]
             ELSE [raised |-> FALSE, text |-> Strip(Join(text_parts))]

----------------------------------------------------------------------------
(* Inputs *)

DateSet == {"20240131", "20240320"}

MaxDates == 2

RECURSIVE SeqsUpTo(_, _)
SeqsUpTo(S, n) ==
    IF n = 0 THEN {<<>>}
    ELSE LET shorter == SeqsUpTo(S, n - 1)
         IN  shorter \cup {Append(q, x) : q \in {r \in shorter : Len(r) = n - 1}, x \in S}

NoFile == [exists |-> FALSE, content |-> <<>>]

File(c) == [exists |-> TRUE, content |-> c]

(* A text file left in the output directory by an earlier run. *)
PriorText == <<"hello", " ", "\n", "Powell">>

(* The PDFs the server may answer with. *)
Docs == { Pdf(<<PText(<<"hello", " ">>), PThrows, PText(<<"Powell">>)>>),
          Pdf(<<PNone, PText(<<"Powell">>)>>),
          Pdf(<<PNone, PThrows>>),
          Pdf(<<PText(<<" ">>)>>),
          Pdf(<<PText(<<"Page", " ", "1", " ", "of", " ", "2">>)>>),
          Corrupt }

(* History events; val is the status of a GET (0: the request raised) or  *)
(* the duration of a sleep.                                               *)
Ev(e, d, r, v) == [ev |-> e, date |-> d, res |-> r, val |-> v]

Call(d) == Ev("CALL", d, FALSE, 0)

Return(d, r) == Ev("RET", d, r, 0)

Write(d) == Ev("WRITE", d, FALSE, 0)

Get(d, status) == Ev("GET", d, FALSE, status)

Sleep(d, s) == Ev("SLEEP", d, FALSE, s)

(* What every run starts from, whatever its inputs are. *)
InitLocals ==
    /\ run = 1
    /\ clean_result = [d \in DateSet |-> "none"]
    /\ saved_raw = [d \in DateSet |-> NoFile]
    /\ faulted = FALSE
    /\ idx = 0
    /\ attempt = 0
    /\ pdf = None
    /\ text = <<>>
    /\ success_count = 0
    /\ total_count = 0
    /\ todo = {}
    /\ cur = "none"
    /\ cleaned_content = <<>>
    /\ cleaned_count = 0
    /\ outcome = "none"
    /\ log = <<>>
    /\ flog = <<>>

Init ==
    /\ names_file = "ok"
    /\ dates_file = "ok"
    /\ names = _load_names_from_file(names_file)
    /\ dates \in SeqsUpTo(DateSet, MaxDates)
    /\ files \in [DateSet -> {NoFile, File(PriorText)}]
    /\ pc = "load"
    /\ InitLocals

----------------------------------------------------------------------------
(* scrape_predefined_dates and process_date *)

(* A date file that cannot be read taken for an empty list of dates. *)
LoadDates_MissingIsEmpty ==
    /\ pc = "load"
    /\ IF dates_file # "ok"
       THEN pc' = "clean_start" /\ UNCHANGED <<idx, total_count>>
       ELSE IF Len(dates) = 0
       THEN pc' = "clean_start" /\ UNCHANGED <<idx, total_count>>
       ELSE pc' = "process" /\ idx' = 1 /\ total_count' = Len(dates)
    /\ success_count' = 0
    /\ UNCHANGED <<env, hist, dates, files, attempt, pdf, text, todo, cur, cleaned_content,
                   cleaned_count, outcome, log, flog>>

(* Lines 365-373; when load_dates_from_file raises (lines 120-129), the   *)
(* handlers of lines 386-388 and 411-413 pass the error on and the run    *)
(* ends.                                                                   *)
LoadDates ==
    /\ pc = "load"
    /\ IF dates_file # "ok"
       THEN pc' = "aborted" /\ UNCHANGED <<idx, total_count>>
       ELSE IF Len(dates) = 0
       THEN pc' = "clean_start" /\ UNCHANGED <<idx, total_count>>
       ELSE pc' = "process" /\ idx' = 1 /\ total_count' = Len(dates)
    /\ success_count' = 0
    /\ UNCHANGED <<env, hist, dates, files, attempt, pdf, text, todo, cur, cleaned_content,
                   cleaned_count, outcome, log, flog>>

(* The caller counting a not-found date as a success. *)
Ret_CountsNotFound(lg, r, why) ==
    /\ outcome' = why
    /\ log' = Append(lg, Return(dates[idx], r))
    /\ success_count' = IF r \/ why = "not_found" THEN success_count + 1 ELSE success_count
    /\ pc' = "delay"

(* process_date returns r at the return statement named why; the caller    *)
(* counts it (lines 376-377) and goes on to the sleep of line 379.         *)
Ret(lg, r, why) ==
    /\ outcome' = why
    /\ log' = Append(lg, Return(dates[idx], r))
    /\ success_count' = IF r THEN success_count + 1 ELSE success_count
    /\ pc' = "delay"

(* process_date without the test of line 337. *)
ProcessDate_NoGate ==
    /\ pc = "process"
    /\ flog' = <<>>
    /\ pdf' = None
    /\ text' = <<>>
    /\ attempt' = 0
    /\ log' = Append(log, Call(dates[idx]))
    /\ outcome' = "running"
    /\ pc' = "download"
    /\ UNCHANGED <<env, hist, dates, files, idx, success_count, total_count, todo, cur,
                   cleaned_content, cleaned_count>>

(* Lines 336-341. *)
ProcessDate ==
    /\ pc = "process"
    /\ flog' = <<>>
    /\ pdf' = None
    /\ text' = <<>>
    /\ attempt' = 0
    /\ IF files[dates[idx]].exists
       THEN Ret(Append(log, Call(dates[idx])), TRUE, "skipped")
       ELSE /\ log' = Append(log, Call(dates[idx]))
            /\ outcome' = "running"
            /\ pc' = "download"
            /\ UNCHANGED success_count
    /\ UNCHANGED <<env, hist, dates, files, idx, total_count, todo, cur, cleaned_content,
                   cleaned_count>>

(* download_pdf, one iteration of the loop of line 144 per step.           *)
(* Lines 147-151: the GET answers 200.                                     *)
DownloadOk ==
    /\ pc = "download"
    /\ attempt < max_retries
    /\ \E doc \in Docs : pdf' = doc
    /\ flog' = Append(flog, Get(dates[idx], 200))
    /\ pc' = "extract"
    /\ UNCHANGED <<env, hist, dates, files, idx, attempt, text, success_count, total_count,
                   todo, cur, cleaned_content, cleaned_count, outcome, log>>

(* download_pdf treating a 404 like any other failing status. *)
DownloadNotFound_Retried ==
    /\ pc = "download"
    /\ attempt < max_retries
    /\ flog' = Append(flog, Get(dates[idx], 404))
    /\ attempt' = attempt + 1
    /\ pdf' = None
    /\ IF attempt + 1 < max_retries
       THEN pc' = "download" /\ UNCHANGED <<outcome, log, success_count>>
       ELSE Ret(log, FALSE, "exhausted")
    /\ UNCHANGED <<env, hist, dates, files, idx, text, total_count, todo, cur,
                   cleaned_content, cleaned_count>>

(* Lines 152-154, and line 344 of process_date. *)
DownloadNotFound ==
    /\ pc = "download"
    /\ attempt < max_retries
    /\ flog' = Append(flog, Get(dates[idx], 404))
    /\ pdf' = None
    /\ Ret(log, FALSE, "not_found")
    /\ UNCHANGED <<env, hist, dates, files, idx, attempt, text, total_count, todo, cur,
                   cleaned_content, cleaned_count>>

(* Lines 155-158: any other status; the loop goes on, and falls through to *)
(* line 171 after the last attempt.                                        *)
DownloadHttpError ==
    /\ pc = "download"
    /\ attempt < max_retries
    /\ flog' = Append(flog, Get(dates[idx], 500))
    /\ attempt' = attempt + 1
    /\ pdf' = None
    /\ IF attempt + 1 < max_retries
       THEN pc' = "download" /\ UNCHANGED <<outcome, log, success_count>>
       ELSE Ret(log, FALSE, "exhausted")
    /\ UNCHANGED <<env, hist, dates, files, idx, text, total_count, todo, cur,
                   cleaned_content, cleaned_count>>

(* download_pdf giving up at the first RequestException. *)
DownloadException_NoRetry ==
    /\ pc = "download"
    /\ attempt < max_retries
    /\ attempt' = attempt + 1
    /\ pdf' = None
    /\ flog' = Append(flog, Get(dates[idx], 0))
    /\ Ret(log, FALSE, "exhausted")
    /\ UNCHANGED <<env, hist, dates, files, idx, text, total_count, todo, cur,
                   cleaned_content, cleaned_count>>

(* Lines 160-169: the GET raises a RequestException. *)
DownloadException ==
    /\ pc = "download"
    /\ attempt < max_retries
    /\ attempt' = attempt + 1
    /\ pdf' = None
    /\ IF attempt < max_retries - 1
       THEN /\ flog' = flog \o <<Get(dates[idx], 0), Sleep(dates[idx], retry_delay)>>
            /\ pc' = "download"
            /\ UNCHANGED <<outcome, log, success_count>>
       ELSE /\ flog' = Append(flog, Get(dates[idx], 0))
            /\ Ret(log, FALSE, "exhausted")
    /\ UNCHANGED <<env, hist, dates, files, idx, text, total_count, todo, cur,
                   cleaned_content, cleaned_count>>

(* Lines 346-349, and the handler of lines 353-355. *)
Extract ==
    /\ pc = "extract"
    /\ LET r == extract_text_from_pdf(pdf)
       IN  IF r.raised THEN text' = text /\ Ret(log, FALSE, "exception")
           ELSE /\ text' = r.text
                /\ IF Len(r.text) = 0 THEN Ret(log, FALSE, "empty")
                   ELSE pc' = "save" /\ UNCHANGED <<outcome, log, success_count>>
    /\ UNCHANGED <<env, hist, dates, files, idx, attempt, pdf, total_count, todo, cur,
                   cleaned_content, cleaned_count, flog>>

(* save_text_file, lines 266-274: open(filepath, "w") creates or truncates *)
(* the file, or raises.                                                    *)
SaveOpen ==
    /\ pc = "save"
    /\ IF Len(Strip(text)) = 0 THEN Ret(log, FALSE, "no_content") /\ UNCHANGED files
       ELSE \E ok \in BOOLEAN :
              IF ok THEN /\ files' = [files EXCEPT ![dates[idx]] = File(<<>>)]
                         /\ pc' = "save_write"
                         /\ UNCHANGED <<outcome, log, success_count>>
              ELSE Ret(log, FALSE, "save_error") /\ UNCHANGED files
    /\ faulted' = (faulted \/ outcome' = "save_error")
    /\ UNCHANGED <<env, clean_result, saved_raw, dates, idx, attempt, pdf, text, total_count, todo, cur,
                   cleaned_content, cleaned_count, flog>>

(* process_date cleaning the text before it is saved. *)
SaveWrite_Cleaned ==
    /\ pc = "save_write"
    /\ \/ /\ files' = [files EXCEPT ![dates[idx]] = File(clean_extracted_text(text))]
          /\ saved_raw' = [saved_raw EXCEPT ![dates[idx]] = File(text)]
          /\ Ret(Append(log, Write(dates[idx])), TRUE, "saved")
          /\ UNCHANGED faulted
       \/ /\ \E k \in 0..(Len(text) - 1) :
                files' = [files EXCEPT ![dates[idx]] = File(SubSeq(text, 1, k))]
          /\ Ret(log, FALSE, "save_error")
          /\ faulted' = TRUE
          /\ UNCHANGED saved_raw
    /\ UNCHANGED <<env, clean_result, dates, idx, attempt, pdf, text, total_count, todo, cur,
                   cleaned_content, cleaned_count, flog>>

(* Lines 275-282: f.write and the close; a failure leaves what was written. *)
SaveWrite ==
    /\ pc = "save_write"
    /\ \/ /\ files' = [files EXCEPT ![dates[idx]] = File(text)]
          /\ saved_raw' = [saved_raw EXCEPT ![dates[idx]] = File(text)]
          /\ Ret(Append(log, Write(dates[idx])), TRUE, "saved")
          /\ UNCHANGED faulted
       \/ /\ \E k \in 0..(Len(text) - 1) :
                files' = [files EXCEPT ![dates[idx]] = File(SubSeq(text, 1, k))]
          /\ Ret(log, FALSE, "save_error")
          /\ faulted' = TRUE
          /\ UNCHANGED saved_raw
    /\ UNCHANGED <<env, clean_result, dates, idx, attempt, pdf, text, total_count, todo, cur,
                   cleaned_content, cleaned_count, flog>>

(* The batch loop ending at the first date that fails. *)
Delay_StopsOnFailure ==
    /\ pc = "delay"
    /\ log' = Append(log, Sleep(dates[idx], delay))
    /\ idx' = idx + 1
    /\ pc' = IF idx < Len(dates) /\ log[Len(log)].res THEN "process" ELSE "clean_start"
    /\ UNCHANGED <<env, hist, dates, files, attempt, pdf, text, success_count, total_count,
                   todo, cur, cleaned_content, cleaned_count, outcome, flog>>

(* The batch loop sleeping between dates only, not after the last one. *)
Delay_NotAfterLast ==
    /\ pc = "delay"
    /\ log' = IF idx < Len(dates) THEN Append(log, Sleep(dates[idx], delay)) ELSE log
    /\ idx' = idx + 1
    /\ pc' = IF idx < Len(dates) THEN "process" ELSE "clean_start"
    /\ UNCHANGED <<env, hist, dates, files, attempt, pdf, text, success_count, total_count,
                   todo, cur, cleaned_content, cleaned_count, outcome, flog>>

(* Line 379, and the loop of line 375 moving on or ending (line 384). *)
Delay ==
    /\ pc = "delay"
    /\ log' = Append(log, Sleep(dates[idx], delay))
    /\ idx' = idx + 1
    /\ pc' = IF idx < Len(dates) THEN "process" ELSE "clean_start"
    /\ UNCHANGED <<env, hist, dates, files, attempt, pdf, text, success_count, total_count,
                   todo, cur, cleaned_content, cleaned_count, outcome, flog>>

----------------------------------------------------------------------------
(* clean_all_text_files *)

(* Lines 292-299. *)
CleanStart ==
    /\ pc = "clean_start"
    /\ todo' = {d \in DateSet : files[d].exists}
    /\ clean_result' = [d \in DateSet |-> IF files[d].exists THEN "listed" ELSE "none"]
    /\ cleaned_count' = 0
    /\ pc' = IF todo' = {} THEN "done" ELSE "clean_loop"
    /\ UNCHANGED <<env, saved_raw, faulted, dates, files, idx, attempt, pdf, text, success_count,
                   total_count, cur, cleaned_content, outcome, log, flog>>

AfterFile(d) == IF todo \ {d} = {} THEN "done" ELSE "clean_loop"

(* The loop over the files ended by the first file that cannot be read. *)
CleanOpen_StopsOnFailure ==
    /\ pc = "clean_loop"
    /\ \E d \in todo :
         \/ /\ cur' = d
            /\ cleaned_content' = clean_extracted_text(files[d].content)
            /\ files' = [files EXCEPT ![d] = File(<<>>)]
            /\ pc' = "clean_write"
            /\ UNCHANGED <<todo, clean_result, faulted>>
         \/ /\ cur' = d
            /\ todo' = todo \ {d}
            /\ pc' = "done"
            /\ clean_result' = [clean_result EXCEPT ![d] = "failed"]
            /\ faulted' = TRUE
            /\ UNCHANGED <<files, cleaned_content>>
    /\ UNCHANGED <<env, saved_raw, dates, idx, attempt, pdf, text, success_count, total_count,
                   cleaned_count, outcome, log, flog>>

(* Lines 301-308: read, clean, and open for writing; a failure of the read *)
(* or of the open goes to the handler of lines 313-316.                    *)
CleanOpen ==
    /\ pc = "clean_loop"
    /\ \E d \in todo :
         \/ /\ cur' = d
            /\ cleaned_content' = clean_extracted_text(files[d].content)
            /\ files' = [files EXCEPT ![d] = File(<<>>)]
            /\ pc' = "clean_write"
            /\ UNCHANGED <<todo, clean_result, faulted>>
         \/ /\ cur' = d
            /\ todo' = todo \ {d}
            /\ pc' = AfterFile(d)
            /\ clean_result' = [clean_result EXCEPT ![d] = "failed"]
            /\ faulted' = TRUE
            /\ UNCHANGED <<files, cleaned_content>>
    /\ UNCHANGED <<env, saved_raw, dates, idx, attempt, pdf, text, success_count, total_count,
                   cleaned_count, outcome, log, flog>>

(* Lines 309-311, or the handler of lines 313-316. *)
CleanWrite ==
    /\ pc = "clean_write"
    /\ \/ /\ files' = [files EXCEPT ![cur] = File(cleaned_content)]
          /\ cleaned_count' = cleaned_count + 1
          /\ clean_result' = [clean_result EXCEPT ![cur] = "cleaned"]
          /\ UNCHANGED faulted
       \/ /\ \E k \in 0..(Len(cleaned_content) - 1) :
                files' = [files EXCEPT ![cur] = File(SubSeq(cleaned_content, 1, k))]
          /\ clean_result' = [clean_result EXCEPT ![cur] = "failed"]
          /\ faulted' = TRUE
          /\ UNCHANGED cleaned_count
    /\ todo' = todo \ {cur}
    /\ pc' = AfterFile(cur)
    /\ UNCHANGED <<env, saved_raw, dates, idx, attempt, pdf, text, success_count, total_count,
                   cur, cleaned_content, outcome, log, flog>>

(* KeyboardInterrupt, caught by main at line 409: the run stops where it is. *)
Interrupt ==
    /\ pc \notin {"done", "aborted", "interrupted"}
    /\ pc' = "interrupted"
    /\ UNCHANGED <<env, hist, dates, files, idx, attempt, pdf, text, success_count,
                   total_count, todo, cur, cleaned_content, cleaned_count,
                   outcome, log, flog>>

Next ==
    \/ LoadDates
    \/ ProcessDate
    \/ DownloadOk
    \/ DownloadNotFound
    \/ DownloadHttpError
    \/ DownloadException
    \/ Extract
    \/ SaveOpen
    \/ SaveWrite
    \/ Delay
    \/ CleanStart
    \/ CleanOpen
    \/ CleanWrite
    \/ Interrupt

Spec == Init /\ [][Next]_vars

----------------------------------------------------------------------------
(* Properties *)

Last(q) == q[Len(q)]

IsGet(e) == e.ev = "GET"

Gets == SelectSeq(flog, IsGet)

Retryable(e) == e.val \notin {200, 404}

(* download_pdf has returned in the current process_date call. *)
FetchReturned ==
    \/ pc \in {"extract", "save", "save_write"}
    \/ outcome \notin {"none", "running", "skipped"}

(* C1: when process_date is called for a date whose output file exists, it *)
(* returns True through the skip of line 339 in that very step, without a  *)
(* GET and with every output file unchanged.                               *)
C1_IdempotencyGate ==
    [][(pc = "process" /\ files[dates[idx]].exists /\ pc' \notin {"process", "interrupted"})
        => /\ files' = files
           /\ flog' = <<>>
           /\ outcome' = "skipped"
           /\ pc' = "delay"
           /\ log' = log \o <<Call(dates[idx]), Return(dates[idx], TRUE)>>
           /\ success_count' = success_count + 1]_vars

C1_Witness ==
    /\ pc = "delay"
    /\ outcome = "skipped"
    /\ files[dates[idx]] = File(PriorText)
    /\ flog = <<>>

(* C2: a download_pdf call issues at most max_retries GETs; every GET but  *)
(* the last was a retryable failure; the call goes on after a retryable    *)
(* failure while attempts remain and ends at the first 200 or 404; when it *)
(* has ended on retryable failures only, it issued exactly max_retries     *)
(* GETs and returned None.                                                 *)
C2_RetryTermination ==
    /\ Len(Gets) <= max_retries
    /\ \A i \in 1..(Len(Gets) - 1) : Retryable(Gets[i])
    /\ pc = "download" => Len(Gets) = attempt /\ attempt < max_retries
    /\ (Len(Gets) > 0 /\ ~Retryable(Last(Gets))) => pc # "download"
    /\ FetchReturned =>
         /\ Len(Gets) >= 1
         /\ Retryable(Last(Gets)) => (Len(Gets) = max_retries /\ pdf = None)
         /\ Last(Gets).val = 404 => pdf = None
         /\ Last(Gets).val = 200 => pdf \in Docs

C2_Witness ==
    /\ FetchReturned
    /\ Len(Gets) = max_retries
    /\ Gets[1].val = 500
    /\ Gets[2].val = 0
    /\ Retryable(Gets[3])
    /\ outcome = "exhausted"

YieldsText(p) == p.kind = "text" /\ p.t # <<>>

(* The texts of the pages that yield text, in page order. *)
PageTexts(pages) ==
    LET yielding == SelectSeq(pages, YieldsText)
    IN  [i \in 1..Len(yielding) |-> yielding[i].t]

(* process_date has just returned True after saving. *)
JustSaved == pc = "delay" /\ outcome = "saved"

(* C3 as claimed: when process_date has saved, the file holds the Cleaner's *)
(* output for the joined page texts, written once.                         *)
C3_SavedIsCleaned ==
    JustSaved =>
        /\ files[dates[idx]] = File(clean_extracted_text(Join(PageTexts(pdf.pages))))
        /\ SubSeq(log, Len(log) - 2, Len(log)) =
             <<Call(dates[idx]), Write(dates[idx]), Return(dates[idx], TRUE)>>

(* C3 amended: when process_date has saved, the file holds the joined page *)
(* texts, stripped and otherwise as extracted (the Cleaner has not been     *)
(* applied), and process_date wrote the file once.                         *)
C3_SavedIsRawExtract ==
    JustSaved =>
        /\ files[dates[idx]] = File(Strip(Join(PageTexts(pdf.pages))))
        /\ files[dates[idx]].content # <<>>
        /\ SubSeq(log, Len(log) - 2, Len(log)) =
             <<Call(dates[idx]), Write(dates[idx]), Return(dates[idx], TRUE)>>

C3_Witness ==
    /\ JustSaved
    /\ \E i \in 1..Len(pdf.pages) : pdf.pages[i].kind = "throws"
    /\ files[dates[idx]].content # clean_extracted_text(files[dates[idx]].content)

(* process_date has just returned False because download_pdf returned None. *)
JustFailedFetch(why) == pc = "delay" /\ outcome = why

(* What download_pdf and process_date hand back: pdf_content and the bool. *)
ResultValue == <<pdf, Last(log).res>>

NoStepAfterFetch ==
    /\ text = <<>>
    /\ ~files[dates[idx]].exists
    /\ SubSeq(log, Len(log) - 1, Len(log)) = <<Call(dates[idx]), Return(dates[idx], FALSE)>>

(* C4 as claimed: a 404 ends the call with the not-found result and no     *)
(* further step, and exhausted retries end it with a different result.     *)
C4_Distinguishable ==
    /\ JustFailedFetch("not_found") =>
         Last(Gets).val = 404 /\ ResultValue = <<None, FALSE>> /\ NoStepAfterFetch
    /\ JustFailedFetch("exhausted") =>
         Len(Gets) = max_retries /\ ResultValue # <<None, FALSE>> /\ NoStepAfterFetch

(* C4 amended: a 404 and exhausted retries both make download_pdf return   *)
(* None and process_date return False, with no extract or save step; the   *)
(* result values are the same, and only the requests made differ.          *)
C4_SameFailureValue ==
    /\ JustFailedFetch("not_found") =>
         Last(Gets).val = 404 /\ ResultValue = <<None, FALSE>> /\ NoStepAfterFetch
    /\ JustFailedFetch("exhausted") =>
         /\ Len(Gets) = max_retries
         /\ \A i \in 1..Len(Gets) : Retryable(Gets[i])
         /\ ResultValue = <<None, FALSE>>
         /\ NoStepAfterFetch

C4_Witness ==
    /\ JustFailedFetch("not_found")
    /\ Len(Gets) = 2
    /\ ResultValue = <<None, FALSE>>

IsCall(e) == e.ev = "CALL"

IsRet(e) == e.ev = "RET"

IsSleep(e) == e.ev = "SLEEP"

Calls == SelectSeq(log, IsCall)

Rets == SelectSeq(log, IsRet)

DelaySleeps == SelectSeq(log, IsSleep)

(* scrape_predefined_dates has returned. *)
AfterScrape == pc \in {"clean_start", "clean_loop", "clean_write", "done"}

(* C5: the calls of process_date are those of the date list, in its order; *)
(* a call returns before the next begins; and when the batch has returned, *)
(* every entry has been called and has returned, whatever the outcomes,    *)
(* and total_count is the length of the list.                              *)
C5_BatchIsolation ==
    /\ Len(Calls) <= Len(dates)
    /\ \A i \in 1..Len(Calls) : Calls[i].date = dates[i]
    /\ Len(Rets) \in {Len(Calls), Len(Calls) - 1}
    /\ \A i \in 1..Len(Rets) : Rets[i].date = dates[i]
    /\ \A i \in 2..Len(log) : log[i].ev = "CALL" => log[i - 1].ev \notin {"CALL", "WRITE"}
    /\ AfterScrape =>
         /\ Len(Calls) = Len(dates)
         /\ Len(Rets) = Len(dates)
         /\ total_count = Len(dates)

C5_Witness ==
    /\ pc = "clean_start"
    /\ Len(dates) = 2
    /\ ~Rets[1].res
    /\ outcome = "save_error"

(* C6: success_count is the number of calls that returned True, which are  *)
(* the saved and the skipped ones, and total_count is the length of the    *)
(* date list.                                                              *)
C6_BatchAggregation ==
    /\ success_count = Cardinality({i \in 1..Len(Rets) : Rets[i].res})
    /\ pc = "delay" => (Last(log).res <=> outcome \in {"saved", "skipped"})
    /\ AfterScrape =>
         /\ total_count = Len(dates)
         /\ Len(Rets) = total_count
         /\ success_count <= total_count

C6_Witness ==
    /\ pc = "clean_start"
    /\ total_count = 2
    /\ success_count = 1
    /\ Rets[1].res
    /\ outcome = "not_found"

(* C7: each return of process_date is followed at once by one sleep of the *)
(* configured delay, whatever was returned; a later call begins only after *)
(* that sleep, so the GETs of two dates are separated by it; and when the  *)
(* batch has returned there are as many sleeps as dates.                   *)
C7_Throttle ==
    /\ \A i \in 1..Len(log) :
         /\ log[i].ev = "SLEEP" =>
              i > 1 /\ log[i - 1] = Return(log[i].date, log[i - 1].res) /\ log[i].val = delay
         /\ (log[i].ev = "RET" /\ i < Len(log)) => log[i + 1].ev = "SLEEP"
         /\ (log[i].ev = "CALL" /\ i > 1) => log[i - 1].ev = "SLEEP"
    /\ (Len(log) > 0 /\ Last(log).ev = "RET") => pc \in {"delay", "interrupted"}
    /\ pc = "download" => Last(log) = Call(dates[idx])
    /\ \A j \in 1..Len(flog) : Len(Calls) > 0 /\ flog[j].date = Last(Calls).date
    /\ AfterScrape => Len(DelaySleeps) = Len(dates)

C7_Witness ==
    /\ pc = "clean_start"
    /\ Len(dates) = 2
    /\ ~Rets[1].res
    /\ outcome = "skipped"
    /\ Len(DelaySleeps) = 2

(* C8 as claimed: in a download_pdf call every GET that is followed by     *)
(* another GET is followed first by one sleep of retry_delay, and nothing   *)
(* follows the last GET.                                                   *)
C8_RetryDelay ==
    /\ \A i \in 1..Len(flog) :
         (flog[i].ev = "GET" /\ i < Len(flog)) =>
             /\ flog[i + 1] = Sleep(flog[i].date, retry_delay)
             /\ i + 2 <= Len(flog) => flog[i + 2].ev = "GET"
    /\ (FetchReturned /\ Len(flog) > 0) => Last(flog).ev = "GET"

(* C9 as claimed: a step changes an output file only from its previous     *)
(* complete content (or absence) to the complete new content, so a run     *)
(* that stops at any point leaves no truncated file.                       *)
C9_AtomicWrites ==
    [][\A d \in DateSet :
         files'[d] # files[d] =>
             \/ pc = "save_write" /\ files'[d] = File(text)
             \/ pc = "clean_write" /\ files'[d] = File(cleaned_content)]_vars

----------------------------------------------------------------------------
(* extract_text_from_pdf on its own: one call on a document of up to       *)
(* MaxPages pages, each page returning text, returning nothing or raising. *)

MaxPages == 3

PageOutcomes ==
    {PText(<<"hello", " ">>), PText(<<"Powell">>), PText(<<" ">>), PText(<<>>),
     PNone, PThrows}

InitExtract ==
    /\ pdf \in {Corrupt} \cup {Pdf(ps) : ps \in SeqsUpTo(PageOutcomes, MaxPages)}
    /\ pc = "call_extract"
    /\ names_file = "ok"
    /\ dates_file = "ok"
    /\ names = _load_names_from_file(names_file)
    /\ dates = <<>>
    /\ files = [d \in DateSet |-> NoFile]
    /\ run = 1
    /\ clean_result = [d \in DateSet |-> "none"]
    /\ saved_raw = [d \in DateSet |-> NoFile]
    /\ faulted = FALSE
    /\ idx = 0
    /\ attempt = 0
    /\ text = <<>>
    /\ success_count = 0
    /\ total_count = 0
    /\ todo = {}
    /\ cur = "none"
    /\ cleaned_content = <<>>
    /\ cleaned_count = 0
    /\ outcome = "none"
    /\ log = <<>>
    /\ flog = <<>>

(* Lines 231-253. *)
ExtractCall ==
    /\ pc = "call_extract"
    /\ LET r == extract_text_from_pdf(pdf)
       IN  /\ text' = r.text
           /\ outcome' = IF r.raised THEN "raised" ELSE "returned"
    /\ pc' = "extract_done"
    /\ UNCHANGED <<env, hist, dates, files, idx, attempt, pdf, success_count, total_count,
                   todo, cur, cleaned_content, cleaned_count, log, flog>>

NextExtract == ExtractCall

SpecExtract == InitExtract /\ [][NextExtract]_vars

(* C10: extract_text_from_pdf raises exactly when no page yielded non-empty *)
(* text, and otherwise returns the texts of the pages that yielded some, in *)
(* page order, joined by newlines, with nothing in the place of a page that *)
(* raised or yielded nothing, wherever that page stands.                    *)
C10_PartialExtraction ==
    pc = "extract_done" =>
        /\ outcome = "raised" <=> PageTexts(pdf.pages) = <<>>
        /\ outcome = "returned" => text = Strip(Join(PageTexts(pdf.pages)))

C10_Witness ==
    /\ pc = "extract_done"
    /\ outcome = "returned"
    /\ Len(pdf.pages) = 3
    /\ pdf.pages[1].kind = "text"
    /\ pdf.pages[2].kind = "throws"
    /\ text = <<"Powell", "\n", "hello">>

----------------------------------------------------------------------------
(* The Cleaner's steps on their own: one call on a text put together from  *)
(* up to MaxChunks fragments.                                              *)

MaxChunks == 3

MaxNames == 2

RECURSIVE Concat(_)
Concat(q) == IF Len(q) = 0 THEN <<>> ELSE Head(q) \o Concat(Tail(q))

Texts(fragments) == {Concat(q) : q \in SeqsUpTo(fragments, MaxChunks)}

(* Pieces of the boilerplate the patterns of lines 67-76 look for. *)
Fragments ==
    { <<"Page", " ", "1">>, <<" ", "of", " ", "2">>,
      <<"Page", " ", "1", " ", "of", " ", "2">>,
      <<"Transcript", " ", "of">>,
      <<" ", "Chair", " ", "Powell", "'", "s", " ", "Press", " ", "Conference">>,
      <<"hello">>, <<" ">>, <<"\n">> }

(* Pieces of running text around the names of the registries below. *)
NameFragments ==
    { <<"Powell">>, <<"Jerome">>, <<"hello">>, <<"s">>, <<" ">>, <<",">>,
      <<"Powell", "s", " ">>, <<"Jerome", " ", "Powell">> }

NamePool == { <<"Powell">>, <<"Jerome">>, <<"Jerome", " ", "Powell">> }

(* Registries: up to MaxNames distinct names, in any order. *)
Registries ==
    {r \in SeqsUpTo(NamePool, MaxNames) :
        \A i, j \in 1..Len(r) : i # j => r[i] # r[j]}

(* Everything that belongs to a run of main, at rest. *)
NoRun ==
    /\ names_file = "ok"
    /\ dates_file = "ok"
    /\ dates = <<>>
    /\ files = [d \in DateSet |-> NoFile]
    /\ run = 1
    /\ clean_result = [d \in DateSet |-> "none"]
    /\ saved_raw = [d \in DateSet |-> NoFile]
    /\ faulted = FALSE
    /\ idx = 0
    /\ attempt = 0
    /\ pdf = None
    /\ success_count = 0
    /\ total_count = 0
    /\ todo = {}
    /\ cur = "none"
    /\ cleaned_count = 0
    /\ outcome = "none"
    /\ log = <<>>
    /\ flog = <<>>

NoRunUnchanged ==
    UNCHANGED <<names, names_file, dates_file, dates, files, run, clean_result,
                saved_raw, faulted, idx, attempt, pdf, success_count, total_count,
                todo, cur, cleaned_count, outcome, log, flog>>

InitSteps ==
    /\ NoRun
    /\ names = _load_names_from_file(names_file)
    /\ text \in Texts(Fragments)
    /\ cleaned_content = <<>>
    /\ pc = "call_steps"

(* Lines 186-190. *)
StepsCall ==
    /\ pc = "call_steps"
    /\ cleaned_content' = StructuralSteps(text)
    /\ pc' = "steps_done"
    /\ UNCHANGED text
    /\ NoRunUnchanged

NextSteps == StepsCall

SpecSteps == InitSteps /\ [][NextSteps]_vars

(* C11 as claimed: steps 1-5 applied to their own output give it back.     *)
C11_StructuralIdempotent ==
    pc = "steps_done" => StructuralSteps(cleaned_content) = cleaned_content

InitTag ==
    /\ NoRun
    /\ names \in Registries
    /\ text \in Texts(NameFragments)
    /\ cleaned_content = <<>>
    /\ pc = "call_tag"

(* Lines 196-216. *)
TagCall ==
    /\ pc = "call_tag"
    /\ cleaned_content' = _tag_names_in_text(text)
    /\ pc' = "tag_done"
    /\ UNCHANGED text
    /\ NoRunUnchanged

NextTag == TagCall

SpecTag == InitTag /\ [][NextTag]_vars

(* Whole-word occurrence of a name: the name stands at pos and no word    *)
(* character touches it on either side.                                    *)
WholeWordAt(name, t, pos) ==
    /\ LitAt(name, t, pos)
    /\ (pos = 1 \/ ~IsWord(t[pos - 1]))
    /\ (pos + Len(name) > Len(t) \/ ~IsWord(t[pos + Len(name)]))

HasWholeWord(ns, t) ==
    \E i \in 1..Len(ns) : \E pos \in 1..Len(t) : WholeWordAt(ns[i], t, pos)

(* Deepest nesting of <NAME> ... </NAME> spans from pos on, cur being open. *)
RECURSIVE DepthFrom(_, _, _)
DepthFrom(t, pos, open) ==
    IF pos > Len(t) THEN open
    ELSE IF LitAt(OpenTag, t, pos)
         THEN LET rest == DepthFrom(t, pos + Len(OpenTag), open + 1)
              IN  IF rest > open THEN rest ELSE open
         ELSE IF LitAt(CloseTag, t, pos)
              THEN LET rest == DepthFrom(t, pos + Len(CloseTag), open - 1)
                   IN  IF rest > open THEN rest ELSE open
              ELSE DepthFrom(t, pos + 1, open)

Depth(t) == DepthFrom(t, 1, 0)

Wrapped(name) == OpenTag \o name \o CloseTag

(* C12: tagging is not idempotent. When the text holds a whole-word         *)
(* occurrence of a registry name, tagging the tagged text once more gives  *)
(* a different text, every name standing directly between a pair of tags   *)
(* gets a second pair around it, and each further application makes the    *)
(* deepest nesting one deeper.                                             *)
C12_TaggingNotIdempotent ==
    (pc = "tag_done" /\ HasWholeWord(names, text)) =>
        LET t1 == cleaned_content
            t2 == _tag_names_in_text(t1)
            t3 == _tag_names_in_text(t2)
        IN  /\ t2 # t1
            /\ \A i \in 1..Len(names) :
                   Contains(Wrapped(names[i]), t1) =>
                       Contains(OpenTag \o Wrapped(names[i]) \o CloseTag, t2)
            /\ Depth(t1) >= 1
            /\ Depth(t2) = Depth(t1) + 1
            /\ Depth(t3) = Depth(t2) + 1

C12_Witness ==
    /\ pc = "tag_done"
    /\ text = <<"Powell">>
    /\ HasWholeWord(names, text)
    /\ cleaned_content = Wrapped(<<"Powell">>)
    /\ _tag_names_in_text(cleaned_content) = OpenTag \o Wrapped(<<"Powell">>) \o CloseTag

(* One name's substitution, position by position: an opening tag goes     *)
(* before the lexeme where a whole-word occurrence starts and a closing    *)
(* tag after the lexeme where one ends.                                     *)
WrapWholeWords(name, t) ==
    Concat([p \in 1..Len(t) |->
        (IF WholeWordAt(name, t, p) THEN OpenTag ELSE <<>>)
        \o <<t[p]>>
        \o (IF p >= Len(name) /\ WholeWordAt(name, t, p - Len(name) + 1)
            THEN CloseTag ELSE <<>>)])

(* The fold over the registry, in registry order, each name on the text as *)
(* the names before it left it.                                             *)
RECURSIVE FoldNames(_, _)
FoldNames(ns, t) ==
    IF Len(ns) = 0 THEN t
    ELSE WrapWholeWords(ns[Len(ns)], FoldNames(SubSeq(ns, 1, Len(ns) - 1), t))

Reversed(ns) == [i \in 1..Len(ns) |-> ns[Len(ns) + 1 - i]]

(* C15: the result of step 6 is the fold of the registry, in registry      *)
(* order, over the text: each name's whole-word occurrences in the text as *)
(* the earlier names left it are wrapped in <NAME>...</NAME>, and a name   *)
(* that is part of a longer word is left as it is.                          *)
C15_SequentialFold ==
    pc = "tag_done" =>
        /\ cleaned_content = FoldNames(names, text)
        /\ (\A i \in 1..Len(names) : \A p \in 1..Len(text) :
                ~WholeWordAt(names[i], text, p)) => cleaned_content = text

(* A later name matched inside the span of an earlier one, and the other   *)
(* order of the same registry giving another text.                          *)
C15_Witness ==
    /\ pc = "tag_done"
    /\ names = << <<"Jerome", " ", "Powell">>, <<"Powell">> >>
    /\ text = <<"Powell", "s", " ", "Jerome", " ", "Powell">>
    /\ cleaned_content =
          <<"Powell", "s", " ">>
          \o OpenTag \o <<"Jerome", " ">> \o Wrapped(<<"Powell">>) \o CloseTag
    /\ TagNames(Reversed(names), 1, text) # cleaned_content

----------------------------------------------------------------------------
(* The dates the run goes through. *)
Processed == {dates[i] : i \in 1..Len(dates)}

(* C13: clean_all_text_files attempts every file it listed. When it has     *)
(* returned, every output file is either cleaned or failed, whatever        *)
(* happened to the files before it; the count returned is the number of    *)
(* files cleaned; and a cleaned file holds the Cleaner's result for what   *)
(* it held before.                                                          *)
C13_CleanFailureIsolation ==
    pc = "done" =>
        /\ \A d \in DateSet :
               /\ files[d].exists <=> clean_result[d] \in {"cleaned", "failed"}
               /\ ~files[d].exists <=> clean_result[d] = "none"
        /\ cleaned_count = Cardinality({d \in DateSet : clean_result[d] = "cleaned"})
        /\ \A d \in DateSet : clean_result[d] = "cleaned" =>
               /\ saved_raw[d].exists =>
                      files[d] = File(clean_extracted_text(saved_raw[d].content))
               /\ d \notin Processed =>
                      files[d] = File(clean_extracted_text(PriorText))

(* One file failed, and the file handled after it was cleaned and counted. *)
C13_Witness ==
    /\ pc = "done"
    /\ \E d \in DateSet :
          /\ clean_result[d] = "failed"
          /\ cur # d
          /\ clean_result[cur] = "cleaned"
          /\ files[cur] = File(cleaned_content)
    /\ cleaned_count = 1

----------------------------------------------------------------------------
(* The run with either input file in any condition. load_dates_from_file   *)
(* returns a list only when the date file is read.                         *)
InitLoad ==
    /\ names_file \in FileStatus
    /\ dates_file \in FileStatus
    /\ names = _load_names_from_file(names_file)
    /\ dates \in (IF dates_file = "ok" THEN SeqsUpTo(DateSet, MaxDates) ELSE {<<>>})
    /\ files \in [DateSet -> {NoFile, File(PriorText)}]
    /\ pc = "load"
    /\ InitLocals

SpecLoad == InitLoad /\ [][Next]_vars

(* C14 as claimed: with the date file or the names file missing or         *)
(* unreadable the run never gets past loading: it aborts (or is            *)
(* interrupted) with no call, no GET and no write.                         *)
C14_FatalInputsAbort ==
    (names_file # "ok" \/ dates_file # "ok") =>
        /\ pc \in {"load", "aborted", "interrupted"}
        /\ log = <<>>
        /\ flog = <<>>

(* C14, amended: only the date file is fatal. With the date file missing   *)
(* or unreadable the run aborts before any date is attempted, with no GET  *)
(* and no output file created or modified. With the names file missing or  *)
(* unreadable the registry is empty and the run goes on as with an empty   *)
(* registry: loading does not abort, and the Cleaner tags nothing.         *)
C14_OnlyDatesFatal ==
    [][ /\ dates_file # "ok" =>
             /\ pc' \in {"aborted", "interrupted"}
             /\ files' = files
             /\ log' = <<>>
             /\ flog' = <<>>
        /\ names_file # "ok" =>
             /\ names = <<>>
             /\ (dates_file = "ok" /\ pc = "load") =>
                    pc' \in {"process", "clean_start", "interrupted"}
             /\ (pc = "clean_loop" /\ pc' = "clean_write") =>
                    cleaned_content' = Strip(StructuralSteps(files[cur'].content))
      ]_vars

(* The run aborted on an unreadable date file, the output file of an       *)
(* earlier run untouched.                                                   *)
C14_Witness ==
    /\ dates_file # "ok"
    /\ pc = "aborted"
    /\ log = <<>>
    /\ flog = <<>>
    /\ \E d \in DateSet : files[d] = File(PriorText)

----------------------------------------------------------------------------
(* C16 as claimed: when process_date has returned False for a date, no     *)
(* output file exists for that date, so that a later run does not skip it. *)
C16_CompletionSound ==
    (pc = "delay" /\ Len(log) > 0 /\ Last(log) = Return(dates[idx], FALSE)) =>
        ~files[dates[idx]].exists

----------------------------------------------------------------------------
(* Between two operations: no process_date call and no file of             *)
(* clean_all_text_files is under way.                                       *)
BetweenOperations == pc \in {"process", "delay", "clean_start", "clean_loop", "done"}

(* C18 as claimed: between operations, and with no I/O error so far, every *)
(* existing output file holds something other than whitespace.             *)
C18_NonEmptyOutput ==
    (BetweenOperations /\ ~faulted) =>
        \A d \in DateSet : files[d].exists => Len(Strip(files[d].content)) > 0

----------------------------------------------------------------------------
(* The program run again, up to MaxRuns times, on the output directory the *)
(* run before left, with the same date file and names file.                *)

MaxRuns == 2

(* main called again after it returned (lines 391-407). *)
Restart ==
    /\ pc = "done"
    /\ run < MaxRuns
    /\ run' = run + 1
    /\ pc' = "load"
    /\ clean_result' = [d \in DateSet |-> "none"]
    /\ idx' = 0
    /\ attempt' = 0
    /\ pdf' = None
    /\ text' = <<>>
    /\ success_count' = 0
    /\ total_count' = 0
    /\ todo' = {}
    /\ cur' = "none"
    /\ cleaned_content' = <<>>
    /\ cleaned_count' = 0
    /\ outcome' = "none"
    /\ log' = <<>>
    /\ flog' = <<>>
    /\ UNCHANGED <<names, names_file, dates_file, dates, files, saved_raw, faulted>>

NextRerun == Next \/ Restart

SpecRerun == Init /\ [][NextRerun]_vars

(* C17 as claimed: after any number of complete runs with no I/O error,    *)
(* the output file of every date the program saved holds the Cleaner       *)
(* applied once to the text extracted for that date.                        *)
C17_RerunStable ==
    (pc = "done" /\ ~faulted) =>
        \A d \in DateSet :
            saved_raw[d].exists =>
                files[d] = File(clean_extracted_text(saved_raw[d].content))

====
